---- MODULE Spec2Model ----
(***************************************************************************)
(* Model of the arithmetic worksheet generator (generator.py): the problem *)
(* factory, deduplication, the constrained selector, the multi-batch loop  *)
(* of main and the capped generate() routine.  Every random draw of the    *)
(* program (random.randint, random.choice, random.shuffle) is a            *)
(* nondeterministic choice over all the values the draw can produce.       *)
(***************************************************************************)
EXTENDS Integers, Sequences, FiniteSets

VARIABLES
    \* ProblemFactory fields and the locals of ProblemFactory.create
    factory, current, numbers, operators, create_pc,
    \* deduplicate_problems: argument, result, position
    problems, unique, dedup_pc,
    \* ProblemSelector.scored_samples, the request, select's result
    scored_samples, request, selected, select_pc,
    \* locals of main's multi-batch loop
    sampled, export_plan, requested_copies, copy_index, problems_by_copy,
    generation_incomplete, main_pc, select_calls,
    \* arguments and locals of generate
    amount, min_level, max_level, attempts, candidates, collected,
    answer_counts, plus_target, minus_target, plus_count, minus_count,
    gen_pc, create_calls,
    \* arguments and locals of snapshot_difficulty_distribution
    sample_size, sample_problems, created, factory_calls, scored,
    distribution, sample_pc

fvars == <<factory, current, numbers, operators, create_pc>>
dvars == <<problems, unique, dedup_pc>>
svars == <<scored_samples, request, selected, select_pc>>
mvars == <<sampled, export_plan, requested_copies, copy_index,
           problems_by_copy, generation_incomplete, main_pc, select_calls>>
gvars == <<amount, min_level, max_level, attempts, candidates, collected,
           answer_counts, plus_target, minus_target, plus_count, minus_count,
           gen_pc, create_calls>>
pvars == <<sample_size, sample_problems, created, factory_calls, scored,
           distribution, sample_pc>>
vars == <<fvars, dvars, svars, mvars, gvars, pvars>>

----------------------------------------------------------------------------
(* Bounds of the model *)

\* largest number of terms of a factory in the factory specification
MaxTerms == 3
\* largest result limit of a factory in the factory specification
MaxLimit == 3
\* result limit of the factory whose problems are deduplicated
DedupLimit == 2
\* longest sequence handed to deduplicate_problems
MaxDedupLen == 3
\* longest list of scored problems handed to ProblemSelector
MaxPool == 4
\* largest request.amount
MaxAmount == 3
\* largest number of copies asked of main
MaxCopies == 3
\* largest number of problems sampled for main's pool
MaxSamples == 3
\* largest number of terms and result limit of the factory given to generate
GenMaxTerms == 3
GenMaxLimit == 2
\* largest amount asked of generate, and one amount above 10 (asked only of
\* a factory of limit 1, which makes a single problem)
GenMaxAmount == 2
BigAmount == 11
\* largest number of terms, largest scaled-down result limit and largest
\* sample_size of the sampling specification
SampleMaxTerms == 3
SampleMaxLimit == 2
MaxSampleSize == 2

----------------------------------------------------------------------------
(* Problem: numbers and operators *)

Problem(ns, ops) == [numbers |-> ns, operators |-> ops]

\* what create returns when it fails (Python None): no Problem has no number
NoProblem == Problem(<<>>, <<>>)

\* zip(self.operators, self.numbers[1:]) stops at the shorter of the two
ZipLen(problem) ==
    IF Len(problem.numbers) = 0 THEN 0
    ELSE IF Len(problem.operators) < Len(problem.numbers) - 1
         THEN Len(problem.operators)
         ELSE Len(problem.numbers) - 1

\* the running total of Problem.answer after k loop iterations
RECURSIVE RunningTotal(_, _)
RunningTotal(problem, k) ==
    IF k = 0 THEN problem.numbers[1]
    ELSE IF problem.operators[k] = "+"
         THEN RunningTotal(problem, k - 1) + problem.numbers[k + 1]
         ELSE RunningTotal(problem, k - 1) - problem.numbers[k + 1]

answer(problem) == RunningTotal(problem, ZipLen(problem))

----------------------------------------------------------------------------
(* ProblemFactory.create *)

\* the locals of create, as one value
CreateState(cur, ns, ops, failed) ==
    [current |-> cur, numbers |-> ns, operators |-> ops, failed |-> failed]

\* return None
CreateFailed == CreateState(0, <<>>, <<>>, TRUE)

\* available = self.limit - current
AvailableShort(lim, cur) == lim - cur - 1
AvailableWrong(lim, cur) == lim - cur + 1
Available(lim, cur) == lim - cur

\* current += operand; operators.append('+'); numbers.append(operand)
AddStep(st, operand) ==
    CreateState(st.current + operand, Append(st.numbers, operand),
                Append(st.operators, "+"), FALSE)

\* current -= operand; operators.append('-'); numbers.append(operand)
SubStep(st, operand) ==
    CreateState(st.current - operand, Append(st.numbers, operand),
                Append(st.operators, "-"), FALSE)

\* one iteration of the for loop of create, for the drawn operator:
\* every state the iteration can end in
IterOutcomes(st, lim, operator) ==
    IF operator = "+" /\ Available(lim, st.current) > 0
    THEN {AddStep(st, operand) : operand \in 1..Available(lim, st.current)}
    ELSE IF st.current = 0
         THEN IF Available(lim, st.current) <= 0
              THEN {CreateFailed}
              ELSE {AddStep(st, operand) :
                        operand \in 1..Available(lim, st.current)}
         ELSE {SubStep(st, operand) : operand \in 1..st.current}

\* operator = random.choice(['+', '-'])
StepOutcomes(st, lim) ==
    IterOutcomes(st, lim, "+") \cup IterOutcomes(st, lim, "-")

\* current = random.randint(1, self.limit); numbers = [current]
CreateStarts(lim) == {CreateState(c, <<c>>, <<>>, FALSE) : c \in 1..lim}

\* the states after k more iterations from the states S
RECURSIVE CreateFrom(_, _, _)
CreateFrom(S, k, lim) ==
    IF k <= 0 THEN S
    ELSE CreateFrom(UNION {IF st.failed THEN {st} ELSE StepOutcomes(st, lim)
                              : st \in S}, k - 1, lim)

\* everything factory.create() can return: a Problem or NoProblem
CreateResults(f) ==
    {IF st.failed THEN NoProblem ELSE Problem(st.numbers, st.operators)
        : st \in CreateFrom(CreateStarts(f.limit), f.terms - 1, f.limit)}

----------------------------------------------------------------------------
(* Variables a specification does not use keep their initial value *)

FactoryIdle ==
    /\ factory = [terms |-> 1, limit |-> 1]
    /\ current = 0 /\ numbers = <<>> /\ operators = <<>>
    /\ create_pc = "idle"

DedupIdle == problems = <<>> /\ unique = <<>> /\ dedup_pc = "idle"

SelectorIdle ==
    /\ scored_samples = <<>>
    /\ request = [amount |-> 0, minus_ratio |-> 0, min_level |-> 0,
                  max_level |-> [inf |-> TRUE, v |-> 0]]
    /\ selected = <<>>
    /\ select_pc = "idle"

MainIdle ==
    /\ sampled = <<>> /\ export_plan = [copies |-> 0]
    /\ requested_copies = 0 /\ copy_index = 0
    /\ problems_by_copy = <<>> /\ generation_incomplete = FALSE
    /\ main_pc = "idle" /\ select_calls = 0

GenerateIdle ==
    /\ amount = 0 /\ min_level = 0 /\ max_level = [inf |-> TRUE, v |-> 0]
    /\ attempts = 0 /\ candidates = <<>> /\ collected = <<>>
    /\ answer_counts = <<>>
    /\ plus_target = 0 /\ minus_target = 0
    /\ plus_count = 0 /\ minus_count = 0
    /\ gen_pc = "idle" /\ create_calls = 0

SampleIdle ==
    /\ sample_size = 0 /\ sample_problems = <<>>
    /\ created = NoProblem /\ factory_calls = 0
    /\ scored = <<>> /\ distribution = <<>> /\ sample_pc = "idle"

----------------------------------------------------------------------------
(* Specification of one call of ProblemFactory.create *)

CreateInit ==
    /\ factory \in [terms : 1..MaxTerms, limit : 1..MaxLimit]
    /\ current = 0 /\ numbers = <<>> /\ operators = <<>>
    /\ create_pc = "start"
    /\ DedupIdle /\ SelectorIdle /\ MainIdle /\ GenerateIdle /\ SampleIdle

CreateStart ==
    /\ create_pc = "start"
    /\ \E st \in CreateStarts(factory.limit) :
          /\ current' = st.current
          /\ numbers' = st.numbers
          /\ operators' = st.operators
    /\ create_pc' = "loop"
    /\ UNCHANGED <<factory, dvars, svars, mvars, gvars, pvars>>

\* one iteration of "for _ in range(self.terms - 1)"
CreateIterate ==
    /\ create_pc = "loop"
    /\ Len(operators) < factory.terms - 1
    /\ \E st \in StepOutcomes(CreateState(current, numbers, operators, FALSE),
                              factory.limit) :
          /\ current' = st.current
          /\ numbers' = st.numbers
          /\ operators' = st.operators
          /\ create_pc' = IF st.failed THEN "none" ELSE "loop"
    /\ UNCHANGED <<factory, dvars, svars, mvars, gvars, pvars>>

\* return Problem(numbers=numbers, operators=operators)
CreateReturn ==
    /\ create_pc = "loop"
    /\ Len(operators) >= factory.terms - 1
    /\ create_pc' = "returned"
    /\ UNCHANGED <<factory, current, numbers, operators,
                   dvars, svars, mvars, gvars, pvars>>

CreateNext == CreateStart \/ CreateIterate \/ CreateReturn

Spec == CreateInit /\ [][CreateNext]_vars

----------------------------------------------------------------------------
(* C1 *)

\* C1: every Problem returned by ProblemFactory.create (limit >= 1,
\* terms >= 1) has its first operand, every running total after applying
\* each operator in order, and its answer() within [0, limit].
C1_PrefixSumsInBounds ==
    create_pc = "returned" =>
        LET p == Problem(numbers, operators) IN
        /\ Len(p.numbers) = Len(p.operators) + 1
        /\ \A k \in 0..Len(p.operators) :
              RunningTotal(p, k) \in 0..factory.limit
        /\ answer(p) \in 0..factory.limit

\* a three-term problem that climbs to the limit and then falls back to 0
C1_Witness ==
    /\ create_pc = "returned"
    /\ operators = <<"+", "-">>
    /\ RunningTotal(Problem(numbers, operators), 1) = factory.limit
    /\ answer(Problem(numbers, operators)) = 0

----------------------------------------------------------------------------
(* Sequences *)

Min(a, b) == IF a < b THEN a ELSE b
Max(a, b) == IF a > b THEN a ELSE b

\* all sequences over S of length at most n
BoundedSeqs(S, n) == UNION {[1..k -> S] : k \in 0..n}

\* Python's s[:n]
PySliceTo(s, n) ==
    IF n >= 0 THEN SubSeq(s, 1, Min(n, Len(s)))
    ELSE SubSeq(s, 1, Max(Len(s) + n, 0))

\* Python's "item in s"
Contains(s, item) == \E i \in 1..Len(s) : s[i] = item

\* the elements of a sequence
Range(s) == {s[i] : i \in 1..Len(s)}

\* s.remove(item), or s unchanged where Python raises ValueError
RemoveFirst(s, item) ==
    IF Contains(s, item)
    THEN LET i == CHOOSE k \in 1..Len(s) :
                      s[k] = item /\ \A j \in 1..(k - 1) : s[j] # item
         IN SubSeq(s, 1, i - 1) \o SubSeq(s, i + 1, Len(s))
    ELSE s

\* every order random.shuffle can leave s in: each element of s in turn
\* first, followed by every order of the rest
RECURSIVE Shuffles(_)
Shuffles(s) ==
    IF s = <<>> THEN {<<>>}
    ELSE UNION {{<<x>> \o rest : rest \in Shuffles(RemoveFirst(s, x))}
                   : x \in Range(s)}

----------------------------------------------------------------------------
(* difficulty *)

\* The per-step difficulty functions are imported from additional_difficulty;
\* the model takes them as pure functions with natural values.
difficulty_of_sum_of_two(running, next_number) == running + next_number
difficulty_of_difference(running, next_number) == next_number

\* total after the first k iterations of the loop of difficulty
RECURSIVE DifficultyOfOperands(_, _)
DifficultyOfOperands(problem, k) ==
    IF k = 0 THEN 0
    ELSE IF problem.operators[k] = "+"
         THEN DifficultyOfOperands(problem, k - 1)
              + difficulty_of_sum_of_two(problem.numbers[k],
                                         problem.numbers[k + 1])
         ELSE DifficultyOfOperands(problem, k - 1)
              + difficulty_of_difference(problem.numbers[k],
                                         problem.numbers[k + 1])

RECURSIVE DifficultyTotal(_, _)
DifficultyTotal(problem, k) ==
    IF k = 0 THEN 0
    ELSE IF problem.operators[k] = "+"
         THEN DifficultyTotal(problem, k - 1)
              + difficulty_of_sum_of_two(RunningTotal(problem, k - 1),
                                         problem.numbers[k + 1])
         ELSE DifficultyTotal(problem, k - 1)
              + difficulty_of_difference(RunningTotal(problem, k - 1),
                                         problem.numbers[k + 1])

difficulty(problem) == DifficultyTotal(problem, ZipLen(problem))

\* a (Problem, level) tuple
Scored(problem, level) == [problem |-> problem, level |-> level]

\* a level bound: a number or float('inf')
Finite(v) == [inf |-> FALSE, v |-> v]
Infinite == [inf |-> TRUE, v |-> 0]

\* level <= bound
LevelLE(level, bound) == bound.inf \/ level <= bound.v

----------------------------------------------------------------------------
(* problem_signature, deduplicate_problems *)

problem_signature(problem) == <<problem.numbers, problem.operators>>

\* seen.add(signature)
SeenAddDropped(seen, signature) == seen
SeenAdd(seen, signature) == seen \cup {signature}

\* the loop of deduplicate_problems from its i-th element on
RECURSIVE DedupFrom(_, _, _, _)
DedupFrom(ps, i, seen, uniq) ==
    IF i > Len(ps) THEN uniq
    ELSE IF problem_signature(ps[i]) \in seen
         THEN DedupFrom(ps, i + 1, seen, uniq)
         ELSE DedupFrom(ps, i + 1, SeenAdd(seen, problem_signature(ps[i])),
                        Append(uniq, ps[i]))

deduplicate_problems(ps) == DedupFrom(ps, 1, {}, <<>>)

\* the problems handed to deduplicate_problems: what a two-term factory makes
DedupUniverse == CreateResults([terms |-> 2, limit |-> DedupLimit])

DedupInit ==
    /\ problems \in BoundedSeqs(DedupUniverse, MaxDedupLen)
    /\ unique = <<>>
    /\ dedup_pc = "call"
    /\ FactoryIdle /\ SelectorIdle /\ MainIdle /\ GenerateIdle /\ SampleIdle

\* unique = deduplicate_problems(samples)
Deduplicate ==
    /\ dedup_pc = "call"
    /\ unique' = deduplicate_problems(problems)
    /\ dedup_pc' = "returned"
    /\ UNCHANGED <<problems, fvars, svars, mvars, gvars, pvars>>

\* the result deduplicated once more
DeduplicateAgain ==
    /\ dedup_pc = "returned"
    /\ problems' = unique
    /\ unique' = deduplicate_problems(unique)
    /\ dedup_pc' = "again"
    /\ UNCHANGED <<fvars, svars, mvars, gvars, pvars>>

DedupNext == Deduplicate \/ DeduplicateAgain

DedupSpec == DedupInit /\ [][DedupNext]_vars

\* the indexes of the first occurrence of each signature of ps
FirstIndexes(ps) ==
    {i \in 1..Len(ps) :
        \A j \in 1..(i - 1) :
            problem_signature(ps[j]) # problem_signature(ps[i])}

\* the elements of ps at the indexes I, in order, from index i on
RECURSIVE AtIndexes(_, _, _)
AtIndexes(ps, I, i) ==
    IF i > Len(ps) THEN <<>>
    ELSE (IF i \in I THEN <<ps[i]>> ELSE <<>>) \o AtIndexes(ps, I, i + 1)

\* no two elements of ps have the same signature
DistinctSignatures(ps) ==
    \A i, j \in 1..Len(ps) :
        problem_signature(ps[i]) = problem_signature(ps[j]) => i = j

\* C6: deduplicate_problems returns exactly the first occurrence of each
\* distinct (numbers, operators) signature, in input order: no two results
\* share a signature, every input signature occurs in the result, and a
\* duplicate-free input (so also its own result) comes back unchanged.
C6_FirstOccurrences ==
    dedup_pc \in {"returned", "again"} =>
        /\ unique = AtIndexes(problems, FirstIndexes(problems), 1)
        /\ DistinctSignatures(unique)
        /\ {problem_signature(p) : p \in Range(unique)}
              = {problem_signature(p) : p \in Range(problems)}
        /\ (DistinctSignatures(problems) => unique = problems)
        /\ (dedup_pc = "again" => unique = problems)

\* a signature repeated around another one: its first occurrence is kept
C6_Witness ==
    /\ dedup_pc = "returned"
    /\ Len(problems) = 3
    /\ problems[1] = problems[3]
    /\ problems[1] # problems[2]
    /\ problems[1].numbers = problems[2].numbers
    /\ unique = <<problems[1], problems[2]>>

----------------------------------------------------------------------------
(* ProblemSelector *)

\* Python's round(n / d) for n >= 0, d > 0: halves go to the even neighbour
PyRoundHalfUp(n, d) == (2 * n + d) \div (2 * d)
PyRound(n, d) ==
    LET q == n \div d
        r == n % d
    IN IF 2 * r < d THEN q
       ELSE IF 2 * r > d THEN q + 1
       ELSE IF q % 2 = 0 THEN q ELSE q + 1

\* request.min_level <= level <= request.max_level
InRangeNoMax(level, req) == req.min_level <= level
InRange(level, req) ==
    req.min_level <= level /\ LevelLE(level, req.max_level)

\* ProblemSelector._filter_by_difficulty
filter_by_difficulty(samples, req) ==
    SelectSeq(samples, LAMBDA item : InRange(item.level, req))

\* item[0].operators[0] raises IndexError for a problem without operator
RaisesIndexError(eligible) ==
    \E i \in 1..Len(eligible) : Len(eligible[i].problem.operators) = 0

\* ProblemSelector._build_operator_pools, where it does not raise
build_operator_pools(eligible) ==
    [minus |-> SelectSeq(eligible,
                         LAMBDA item : item.problem.operators[1] = "-"),
     plus |-> SelectSeq(eligible,
                        LAMBDA item : item.problem.operators[1] = "+")]

\* minus_target and plus_target before they are cut to the pools
RequestedTargets(req) ==
    LET minus == PyRound(req.amount * req.minus_ratio, 100)
    IN [minus |-> minus, plus |-> req.amount - minus]

\* if len(pool) < target: target = len(pool)
CutTarget(pool, target) == IF Len(pool) < target THEN Len(pool) ELSE target

\* remaining = [item for item in eligible if item not in selected]
Remaining(eligible, picked) ==
    SelectSeq(eligible, LAMBDA item : ~Contains(picked, item))

\* the top-up of select and its return value, for every shuffle of remaining
TopUp(eligible, picked, req) ==
    IF Len(picked) < req.amount
    THEN {PySliceTo(picked \o PySliceTo(remaining, req.amount - Len(picked)),
                    req.amount)
             : remaining \in Shuffles(Remaining(eligible, picked))}
    ELSE {PySliceTo(picked, req.amount)}

\* select after random.shuffle(eligible): the batches it can return
SelectShuffled(eligible, req) ==
    LET pools == build_operator_pools(eligible)
        minus_cut == CutTarget(pools.minus, RequestedTargets(req).minus)
        plus_cut == CutTarget(pools.plus, RequestedTargets(req).plus)
    IN UNION {UNION {TopUp(eligible,
                           PySliceTo(minus, minus_cut)
                               \o PySliceTo(plus, plus_cut), req)
                        : plus \in Shuffles(pools.plus)}
                 : minus \in Shuffles(pools.minus)}

Returned(batch) == [raised |-> FALSE, batch |-> batch]
Raised == [raised |-> TRUE, batch |-> <<>>]

\* ProblemSelector.select: every way the call can end
SelectOutcomes(samples, req) ==
    IF filter_by_difficulty(samples, req) = <<>>
    THEN {Returned(<<>>)}
    ELSE UNION {IF RaisesIndexError(eligible)
                THEN {Raised}
                ELSE {Returned(batch) : batch \in SelectShuffled(eligible, req)}
                   : eligible \in Shuffles(filter_by_difficulty(samples, req))}

\* ProblemSelector.consume
consumeNothing(samples, batch) == samples
RECURSIVE consume(_, _)
consume(samples, batch) ==
    IF batch = <<>> THEN samples
    ELSE consume(RemoveFirst(samples, Head(batch)), Tail(batch))

\* the problems of the selector's pools, scored by difficulty
PoolProblems ==
    {Problem(<<1, 1>>, <<"+">>), Problem(<<1, 2>>, <<"+">>),
     Problem(<<3, 1>>, <<"-">>), Problem(<<2, 2>>, <<"-">>),
     Problem(<<1>>, <<>>)}

ScoredUniverse == {Scored(p, difficulty(p)) : p \in PoolProblems}

\* the requests: amount >= 0, 0 <= minus_ratio <= 100, a difficulty window
Requests ==
    [amount : 0..MaxAmount, minus_ratio : {0, 30, 50, 100},
     min_level : {0, 2}, max_level : {Finite(2), Infinite}]

SelectInit ==
    /\ scored_samples \in BoundedSeqs(ScoredUniverse, MaxPool)
    /\ request \in Requests
    /\ selected = <<>>
    /\ select_pc = "call"
    /\ FactoryIdle /\ DedupIdle /\ MainIdle /\ GenerateIdle /\ SampleIdle

\* selected = selector.select(request)
SelectCall ==
    /\ select_pc = "call"
    /\ \E out \in SelectOutcomes(scored_samples, request) :
          /\ selected' = out.batch
          /\ select_pc' = IF out.raised THEN "raised" ELSE "returned"
    /\ UNCHANGED <<scored_samples, request, fvars, dvars, mvars, gvars, pvars>>

SelectNext == SelectCall

SelectSpec == SelectInit /\ [][SelectNext]_vars

----------------------------------------------------------------------------
(* C2 - C5: one call of select *)

\* the difficulty window of a request, written out
WithinWindow(item, req) ==
    /\ req.min_level <= item.level
    /\ (req.max_level.inf \/ item.level <= req.max_level.v)

\* the item's problem starts with the operator op
LedBy(item, op) ==
    Len(item.problem.operators) > 0 /\ item.problem.operators[1] = op

\* how many elements of s are in the window and led by op
CountLed(s, req, op) ==
    Cardinality({i \in 1..Len(s) : WithinWindow(s[i], req) /\ LedBy(s[i], op)})

\* how many elements of s are in the window
CountWithin(s, req) ==
    Cardinality({i \in 1..Len(s) : WithinWindow(s[i], req)})

\* round(amount * 50 / 100): half of amount, a half going to the even side
HalfRounded(n) ==
    IF n % 2 = 0 THEN n \div 2
    ELSE IF (n \div 2) % 2 = 0 THEN n \div 2 ELSE (n \div 2) + 1

\* C2: the batch select returns has at most request.amount items, each of
\* them an item of the pool with min_level <= difficulty <= max_level.
C2_BatchWithinAmountAndWindow ==
    select_pc = "returned" =>
        /\ Len(selected) <= request.amount
        /\ \A i \in 1..Len(selected) :
              /\ \E j \in 1..Len(scored_samples) : scored_samples[j] = selected[i]
              /\ WithinWindow(selected[i], request)

\* a full batch whose second half came from the top-up, out of a pool that
\* also holds an item outside the window
C2_Witness ==
    /\ select_pc = "returned"
    /\ request.amount = 2 /\ request.minus_ratio = 50
    /\ Len(selected) = 2
    /\ LedBy(selected[1], "+") /\ LedBy(selected[2], "+")
    /\ \E j \in 1..Len(scored_samples) :
          ~WithinWindow(scored_samples[j], request)

\* C3 (as claimed): whenever at least amount pool items lie in the window,
\* select returns exactly amount items, a side with fewer members than its
\* target contributing all of its members and no more.
C3_ExactAmountWhenSupplied ==
    (select_pc = "returned"
        /\ CountWithin(scored_samples, request) >= request.amount) =>
        /\ Len(selected) = request.amount
        /\ \A op \in {"+", "-"} :
              LET target == IF op = "-"
                            THEN RequestedTargets(request).minus
                            ELSE RequestedTargets(request).plus
              IN CountLed(scored_samples, request, op) < target =>
                    CountLed(selected, request, op)
                        = CountLed(scored_samples, request, op)

\* C4: with minus_ratio = 50 and at least amount/2 in-window items led by
\* each operator, the batch holds exactly round(amount*50/100)
\* subtraction-led and amount - round(amount*50/100) addition-led problems.
C4_HalfAndHalf ==
    (select_pc = "returned"
        /\ request.minus_ratio = 50
        /\ 2 * CountLed(scored_samples, request, "-") >= request.amount
        /\ 2 * CountLed(scored_samples, request, "+") >= request.amount) =>
        /\ CountLed(selected, request, "-") = HalfRounded(request.amount)
        /\ CountLed(selected, request, "+")
              = request.amount - HalfRounded(request.amount)
        /\ Len(selected) = request.amount

\* an odd amount: 3 splits into 2 subtraction-led and 1 addition-led
C4_Witness ==
    /\ select_pc = "returned"
    /\ request.minus_ratio = 50 /\ request.amount = 3
    /\ CountLed(scored_samples, request, "-") = 2
    /\ CountLed(scored_samples, request, "+") = 2
    /\ CountLed(selected, request, "-") = 2
    /\ CountLed(selected, request, "+") = 1

\* C5 (as claimed): select always ends by returning a batch, an empty one
\* when no pool item lies in the window.
C5_SelectNeverRaises ==
    /\ select_pc # "raised"
    /\ (select_pc = "returned" /\ CountWithin(scored_samples, request) = 0
            => selected = <<>>)

----------------------------------------------------------------------------
(* main: one select and consume per requested copy *)

\* snapshot_difficulty_distribution: the sampled problems (those without
\* operator are discarded), deduplicated and scored
ScoredPool(samples) ==
    LET uniq == deduplicate_problems(samples)
    IN [i \in 1..Len(uniq) |-> Scored(uniq[i], difficulty(uniq[i]))]

\* if len(current) < request.amount: break
ShortBatchIgnored(batch, req) == FALSE
ShortBatch(batch, req) == Len(batch) < req.amount

MainInit ==
    /\ \E samples \in BoundedSeqs({p \in PoolProblems : p.operators # <<>>},
                                  MaxSamples) :
          sampled = ScoredPool(samples)
    /\ scored_samples = sampled
    /\ request \in {r \in Requests : r.amount >= 1 /\ r.max_level = Infinite}
    /\ requested_copies \in 1..MaxCopies
    /\ export_plan = [copies |-> requested_copies]
    /\ copy_index = 1
    /\ problems_by_copy = <<>>
    /\ generation_incomplete = FALSE
    /\ selected = <<>>
    /\ select_pc = "idle"
    /\ select_calls = 0
    /\ main_pc = "loop"
    /\ FactoryIdle /\ DedupIdle /\ GenerateIdle /\ SampleIdle

\* one iteration of "for copy_index in range(1, export_plan.copies + 1)"
MainRound ==
    /\ main_pc = "loop"
    /\ copy_index <= export_plan.copies
    /\ select_calls' = select_calls + 1
    /\ \E out \in SelectOutcomes(scored_samples, request) :
          /\ selected' = out.batch
          /\ IF out.raised
             THEN /\ main_pc' = "crashed"
                  /\ UNCHANGED <<scored_samples, problems_by_copy,
                                 generation_incomplete, copy_index>>
             ELSE IF out.batch = <<>>
             THEN /\ generation_incomplete' = TRUE
                  /\ main_pc' = "after_loop"
                  /\ UNCHANGED <<scored_samples, problems_by_copy, copy_index>>
             ELSE /\ scored_samples' = consume(scored_samples, out.batch)
                  /\ problems_by_copy' = Append(problems_by_copy, out.batch)
                  /\ IF ShortBatch(out.batch, request)
                     THEN /\ generation_incomplete' = TRUE
                          /\ main_pc' = "after_loop"
                          /\ UNCHANGED copy_index
                     ELSE /\ copy_index' = copy_index + 1
                          /\ UNCHANGED <<generation_incomplete, main_pc>>
    /\ UNCHANGED <<sampled, export_plan, requested_copies, request, select_pc,
                   fvars, dvars, gvars, pvars>>

\* the range of the for loop is exhausted
MainLoopEnd ==
    /\ main_pc = "loop"
    /\ copy_index > export_plan.copies
    /\ main_pc' = "after_loop"
    /\ UNCHANGED <<sampled, export_plan, requested_copies, copy_index,
                   problems_by_copy, generation_incomplete, select_calls,
                   svars, fvars, dvars, gvars, pvars>>

\* after the loop: nothing to export, or the plan cut to the batches made
MainFinish ==
    /\ main_pc = "after_loop"
    /\ IF problems_by_copy # <<>>
          /\ Len(problems_by_copy) < export_plan.copies
       THEN /\ generation_incomplete' = TRUE
            /\ export_plan' = [copies |-> Len(problems_by_copy)]
       ELSE UNCHANGED <<generation_incomplete, export_plan>>
    /\ main_pc' = "done"
    /\ UNCHANGED <<sampled, requested_copies, copy_index, problems_by_copy,
                   select_calls, svars, fvars, dvars, gvars, pvars>>

MainNext == MainRound \/ MainLoopEnd \/ MainFinish

\* main runs to its end: a sequential program does not stop half-way
MainSpec == MainInit /\ [][MainNext]_vars /\ WF_vars(MainNext)

\* all the batches, one after the other
RECURSIVE Flatten(_)
Flatten(batches) ==
    IF batches = <<>> THEN <<>> ELSE Head(batches) \o Flatten(Tail(batches))

\* C7: from a deduplicated scored pool, the problems selected over all the
\* rounds have pairwise distinct signatures (within a batch and across
\* batches), and after each consume the pool is the pool as sampled without
\* exactly the items of the batches made so far.
C7_NoProblemReused ==
    LET taken == Flatten(problems_by_copy) IN
    /\ \A i, j \in 1..Len(taken) :
          (taken[i].problem.numbers = taken[j].problem.numbers
              /\ taken[i].problem.operators = taken[j].problem.operators)
          => i = j
    /\ \A i \in 1..Len(taken) : \E j \in 1..Len(sampled) : sampled[j] = taken[i]
    /\ main_pc \in {"loop", "after_loop", "done"} =>
          scored_samples
              = SelectSeq(sampled,
                          LAMBDA item : \A i \in 1..Len(taken) : taken[i] # item)

\* a full batch of two, then the one problem left, out of a pool of three
C7_Witness ==
    /\ Len(problems_by_copy) = 2
    /\ Len(problems_by_copy[1]) = 2 /\ Len(problems_by_copy[2]) = 1
    /\ Len(sampled) = 3
    /\ scored_samples = <<>>

\* while the loop runs every select so far returned a full batch
C9_Safety ==
    /\ \A i \in 1..Len(problems_by_copy) : problems_by_copy[i] # <<>>
    /\ \A i \in 1..(Len(problems_by_copy) - 1) :
          Len(problems_by_copy[i]) = request.amount
    /\ Len(problems_by_copy) <= requested_copies
    /\ select_calls <= requested_copies
    /\ select_calls <= Len(problems_by_copy) + 1
    /\ main_pc = "loop" =>
          /\ select_calls = Len(problems_by_copy)
          /\ \A i \in 1..Len(problems_by_copy) :
                Len(problems_by_copy[i]) = request.amount

\* C9: in main's loop no select follows a select that returned an empty or
\* a short batch: every batch made is non-empty, all but possibly the last
\* have exactly amount items, there are at most as many batches (and
\* selects) as requested copies, and the loop terminates.
C9_LoopStopsAtShortfall == []C9_Safety /\ <>(main_pc = "done")

\* three copies asked, the second batch came out short and ended the loop
C9_Witness ==
    /\ main_pc = "done"
    /\ requested_copies = 3
    /\ select_calls = 2
    /\ Len(problems_by_copy) = 2
    /\ Len(problems_by_copy[2]) < request.amount

----------------------------------------------------------------------------
(* generate *)

\* limit = candidate_target * 200
AttemptFactor == 200

\* candidate_target = max(amount * 2, amount)
CandidateTarget(amt) == Max(amt * 2, amt)

AttemptLimit(amt) == CandidateTarget(amt) * AttemptFactor

\* max_per_answer = max(1, (amount + 9) // 10)
MaxPerAnswer(amt) == Max(1, (amt + 9) \div 10)

\* answer_counts.get(answer, 0)
Get(counts, key) == IF key \in DOMAIN counts THEN counts[key] ELSE 0

\* answer_counts[answer] = answer_counts.get(answer, 0) + 1
Incremented(counts, key) ==
    [k \in DOMAIN counts \cup {key} |->
        IF k = key THEN Get(counts, key) + 1 ELSE counts[k]]

\* if answer_counts.get(answer, 0) >= max_per_answer: continue
CapNeverReached(counts, ans, amt) == FALSE
CapReached(counts, ans, amt) == Get(counts, ans) >= MaxPerAnswer(amt)

\* the operator quota of a two-term factory is used up
QuotaNeverReached(st, operator, balance) == FALSE
QuotaReached(st, operator, balance) ==
    /\ balance
    /\ \/ operator = "+" /\ st.plus_count >= st.plus_target
       \/ operator = "-" /\ st.minus_count >= st.minus_target

\* the collecting locals of generate, as one value
Collecting(coll, counts, pt, mt, pc, mc) ==
    [collected |-> coll, answer_counts |-> counts,
     plus_target |-> pt, minus_target |-> mt,
     plus_count |-> pc, minus_count |-> mc]

\* the body shared by the candidate scan and the fill-up loop, from the
\* answer cap on: the item is skipped or collected
Collect(st, item, amt, balance) ==
    LET operator == item.problem.operators[1]
        ans == answer(item.problem)
    IN IF CapReached(st.answer_counts, ans, amt) THEN st
       ELSE IF QuotaReached(st, operator, balance) THEN st
       ELSE Collecting(Append(st.collected, item),
                       Incremented(st.answer_counts, ans),
                       st.plus_target, st.minus_target,
                       IF balance /\ operator = "+"
                           THEN st.plus_count + 1 ELSE st.plus_count,
                       IF balance /\ operator # "+"
                           THEN st.minus_count + 1 ELSE st.minus_count)

\* for problem, level in candidates: ... , from the i-th candidate on
RECURSIVE ScanFrom(_, _, _, _, _)
ScanFrom(cands, i, st, amt, balance) ==
    IF i > Len(cands) \/ Len(st.collected) >= amt THEN st
    ELSE ScanFrom(cands, i + 1, Collect(st, cands[i], amt, balance),
                  amt, balance)

\* while len(candidates) < candidate_target and attempts < limit
CollectGuard(n_candidates, amt, n_attempts) ==
    n_candidates < CandidateTarget(amt) /\ n_attempts < AttemptLimit(amt)

\* while len(collected) < amount and attempts < limit
FillGuardUncapped(n_collected, amt, n_attempts) == n_collected < amt
FillGuard(n_collected, amt, n_attempts) ==
    n_collected < amt /\ n_attempts < AttemptLimit(amt)

\* min_level <= level <= max_level
LevelInRange(level, lo, hi) == lo <= level /\ LevelLE(level, hi)

GenInit ==
    /\ factory \in [terms : 1..GenMaxTerms, limit : 1..GenMaxLimit]
    /\ amount \in 0..GenMaxAmount \cup {BigAmount}
    /\ amount > GenMaxAmount => factory.limit = 1
    /\ min_level \in {0, 2}
    /\ max_level \in {Finite(2), Infinite}
    /\ attempts = 0 /\ candidates = <<>> /\ collected = <<>>
    /\ answer_counts = <<>>
    /\ plus_target = 0 /\ minus_target = 0
    /\ plus_count = 0 /\ minus_count = 0
    /\ create_calls = 0
    /\ gen_pc = "start"
    /\ current = 0 /\ numbers = <<>> /\ operators = <<>>
    /\ create_pc = "idle"
    /\ DedupIdle /\ SelectorIdle /\ MainIdle /\ SampleIdle

\* the targets of a two-term factory: half each, an odd one on either side
GenStart ==
    /\ gen_pc = "start"
    /\ IF factory.terms = 2
       THEN IF amount % 2 = 1
            THEN \E extra_plus \in BOOLEAN :
                    /\ plus_target' = (amount \div 2)
                                          + (IF extra_plus THEN 1 ELSE 0)
                    /\ minus_target' = (amount \div 2)
                                          + (IF extra_plus THEN 0 ELSE 1)
            ELSE /\ plus_target' = amount \div 2
                 /\ minus_target' = amount \div 2
       ELSE UNCHANGED <<plus_target, minus_target>>
    /\ gen_pc' = "collect"
    /\ UNCHANGED <<amount, min_level, max_level, attempts, candidates,
                   collected, answer_counts, plus_count, minus_count,
                   create_calls, fvars, dvars, svars, mvars, pvars>>

\* one iteration of the candidate-collection loop
GenCollect ==
    /\ gen_pc = "collect"
    /\ CollectGuard(Len(candidates), amount, attempts)
    /\ attempts' = attempts + 1
    /\ create_calls' = create_calls + 1
    /\ \E problem \in CreateResults(factory) :
          IF problem = NoProblem \/ problem.operators = <<>>
          THEN UNCHANGED candidates
          ELSE IF LevelInRange(difficulty(problem), min_level, max_level)
               THEN candidates'
                       = Append(candidates,
                                Scored(problem, difficulty(problem)))
               ELSE UNCHANGED candidates
    /\ UNCHANGED <<amount, min_level, max_level, collected, answer_counts,
                   plus_target, minus_target, plus_count, minus_count,
                   gen_pc, fvars, dvars, svars, mvars, pvars>>

\* the collection loop is over: shuffle the candidates and scan them
\* (candidates is never read after the scan: the model forgets the list)
GenScan ==
    /\ gen_pc = "collect"
    /\ ~CollectGuard(Len(candidates), amount, attempts)
    /\ \E shuffled \in Shuffles(candidates) :
          LET st == ScanFrom(shuffled, 1,
                             Collecting(collected, answer_counts, plus_target,
                                        minus_target, plus_count, minus_count),
                             amount, factory.terms = 2)
          IN /\ candidates' = <<>>
             /\ collected' = st.collected
             /\ answer_counts' = st.answer_counts
             /\ plus_count' = st.plus_count
             /\ minus_count' = st.minus_count
    /\ gen_pc' = "fill"
    /\ UNCHANGED <<amount, min_level, max_level, attempts, plus_target,
                   minus_target, create_calls, fvars, dvars, svars, mvars, pvars>>

\* one iteration of the fill-up loop
GenFill ==
    /\ gen_pc = "fill"
    /\ FillGuard(Len(collected), amount, attempts)
    /\ attempts' = attempts + 1
    /\ create_calls' = create_calls + 1
    /\ \E problem \in CreateResults(factory) :
          LET st == IF problem = NoProblem \/ problem.operators = <<>>
                    THEN Collecting(collected, answer_counts, plus_target,
                                    minus_target, plus_count, minus_count)
                    ELSE IF ~LevelInRange(difficulty(problem), min_level,
                                          max_level)
                    THEN Collecting(collected, answer_counts, plus_target,
                                    minus_target, plus_count, minus_count)
                    ELSE Collect(Collecting(collected, answer_counts,
                                            plus_target, minus_target,
                                            plus_count, minus_count),
                                 Scored(problem, difficulty(problem)),
                                 amount, factory.terms = 2)
          IN /\ collected' = st.collected
             /\ answer_counts' = st.answer_counts
             /\ plus_count' = st.plus_count
             /\ minus_count' = st.minus_count
    /\ UNCHANGED <<amount, min_level, max_level, candidates, plus_target,
                   minus_target, gen_pc, fvars, dvars, svars, mvars, pvars>>

\* return collected
GenReturn ==
    /\ gen_pc = "fill"
    /\ ~FillGuard(Len(collected), amount, attempts)
    /\ gen_pc' = "done"
    /\ UNCHANGED <<amount, min_level, max_level, attempts, candidates,
                   collected, answer_counts, plus_target, minus_target,
                   plus_count, minus_count, create_calls,
                   fvars, dvars, svars, mvars, pvars>>

GenNext == GenStart \/ GenCollect \/ GenScan \/ GenFill \/ GenReturn

GenSpec == GenInit /\ [][GenNext]_vars

----------------------------------------------------------------------------
(* C8, C10: generate *)

\* ceil(n / 10): the least k with 10 * k >= n
CeilTenth(n) == CHOOSE k \in 0..n : 10 * k >= n /\ 10 * (k - 1) < n

\* how many collected problems have the answer a
TimesAnswered(a) ==
    Cardinality({i \in 1..Len(collected) : answer(collected[i].problem) = a})

\* C8: for amount >= 1 no answer value occurs more than ceil(amount/10)
\* times among the problems generate collects, those of the candidate scan
\* and those of the fill-up loop counted together.
C8_AnswerCap ==
    amount >= 1 =>
        \A i \in 1..Len(collected) :
            TimesAnswered(answer(collected[i].problem)) <= CeilTenth(amount)

\* more than ten problems asked: two with the same answer were collected and
\* the fill-up loop has since turned a third one down
C8_Witness ==
    /\ gen_pc = "fill"
    /\ amount > 10
    /\ Len(collected) = 2
    /\ answer(collected[1].problem) = answer(collected[2].problem)
    /\ attempts > 2 * amount

\* what is left of generate: the calls of create it may still make, and the
\* steps it takes besides
GenVariant ==
    (400 * amount - create_calls)
        + (IF gen_pc = "start" THEN 3
           ELSE IF gen_pc = "collect" THEN 2
           ELSE IF gen_pc = "fill" THEN 1 ELSE 0)

\* C10: generate calls factory.create at most 400 * amount times over its
\* two loops together and collects at most amount items; every step brings
\* it nearer to its return, whatever the factory yields.
C10_BoundedAttempts ==
    /\ [](/\ create_calls <= 400 * amount
          /\ Len(collected) <= amount
          /\ GenVariant >= 0)
    /\ [][GenVariant' < GenVariant]_vars

\* one problem asked of a factory that never yields a problem in the window:
\* generate returns nothing after 400 calls
C10_Witness ==
    /\ gen_pc = "done"
    /\ amount = 1
    /\ factory.terms = 2
    /\ create_calls = 400
    /\ collected = <<>>

----------------------------------------------------------------------------
(* C11: the targets of a two-term factory *)

\* how many collected problems start with the operator op
CollectedLed(op) ==
    Cardinality({i \in 1..Len(collected) :
                    collected[i].problem.operators[1] = op})

\* C11: for a two-term factory the targets are floor(amount/2) each, with
\* one more on exactly one side when amount is odd, so they sum to amount;
\* the batch never holds more addition problems than plus_target nor more
\* subtraction problems than minus_target, and a batch of amount problems
\* has equal counts for an even amount, counts one apart for an odd one.
C11_HalfTargets ==
    (factory.terms = 2 /\ gen_pc \in {"collect", "fill", "done"}) =>
        /\ plus_target + minus_target = amount
        /\ plus_target \in {amount \div 2, (amount \div 2) + (amount % 2)}
        /\ minus_target \in {amount \div 2, (amount \div 2) + (amount % 2)}
        /\ CollectedLed("+") <= plus_target
        /\ CollectedLed("-") <= minus_target
        /\ Len(collected) = amount =>
              IF amount % 2 = 0
              THEN CollectedLed("+") = CollectedLed("-")
              ELSE \/ CollectedLed("+") = CollectedLed("-") + 1
                   \/ CollectedLed("-") = CollectedLed("+") + 1

\* an odd amount whose extra unit went to the subtractions: both candidates
\* were turned down and the fill-up loop found the one problem
C11_Witness ==
    /\ gen_pc = "done"
    /\ factory.terms = 2
    /\ amount = 1
    /\ plus_target = 0 /\ minus_target = 1
    /\ attempts > 2
    /\ Len(collected) = 1
    /\ collected[1].problem.operators[1] = "-"

----------------------------------------------------------------------------
(* Specification of the sampling loop of snapshot_difficulty_distribution  *)
(* and of sample_difficulties, which is the same loop                      *)

\* ProblemFactory(terms=terms, limit=100)
SampleLimit == 100

\* factory_calls counts the calls of factory.create; it stops counting at
\* CallCap, past every sample_size of the specification
CallCap == MaxSampleSize + 2

\* if problem is None or not problem.operators: continue
Discarded(problem) == problem = NoProblem \/ problem.operators = <<>>

\* [(problem, difficulty(problem)) for problem in unique]
ScoreAll(uniq) ==
    [i \in 1..Len(uniq) |-> Scored(uniq[i], difficulty(uniq[i]))]

\* counts[round(level, precision)] += 1 for every scored problem; the levels
\* of the model are whole numbers, which round leaves as they are
LevelCounts(sc) ==
    [level \in {sc[i].level : i \in 1..Len(sc)} |->
        Cardinality({i \in 1..Len(sc) : sc[i].level = level})]

\* sorted(counts.items()), for the levels in buckets
RECURSIVE SortedItems(_, _)
SortedItems(counts, buckets) ==
    IF buckets = {} THEN <<>>
    ELSE LET least == CHOOSE b \in buckets : \A c \in buckets : b <= c
         IN  <<<<least, counts[least]>>>>
                 \o SortedItems(counts, buckets \ {least})

\* The factory of the sampling functions has limit 100; it is sampled once
\* here, and the factories of smaller limit stand for it in longer runs.
SampleInit ==
    /\ factory \in [terms : 1..SampleMaxTerms,
                    limit : (1..SampleMaxLimit) \cup {SampleLimit}]
    /\ sample_size \in 0..MaxSampleSize
    /\ factory.limit > SampleMaxLimit => factory.terms <= 2 /\ sample_size <= 1
    /\ current = 0 /\ numbers = <<>> /\ operators = <<>>
    /\ create_pc = "idle"
    /\ sample_problems = <<>>
    /\ created = NoProblem
    /\ factory_calls = 0
    /\ scored = <<>>
    /\ distribution = <<>>
    /\ sample_pc = "loop"
    /\ DedupIdle /\ SelectorIdle /\ MainIdle /\ GenerateIdle

\* one iteration of  while len(samples) < sample_size
SampleAttempt ==
    /\ sample_pc = "loop"
    /\ Len(sample_problems) < sample_size
    /\ \E problem \in CreateResults(factory) :
          /\ created' = problem
          /\ sample_problems' = IF Discarded(problem) THEN sample_problems
                                ELSE Append(sample_problems, problem)
    /\ factory_calls' = Min(factory_calls + 1, CallCap)
    /\ UNCHANGED <<sample_size, scored, distribution, sample_pc, fvars,
                   dvars, svars, mvars, gvars>>

\* the loop is left: the samples are deduplicated, scored and counted
SampleScore ==
    /\ sample_pc = "loop"
    /\ Len(sample_problems) >= sample_size
    /\ scored' = ScoreAll(deduplicate_problems(sample_problems))
    /\ distribution' = SortedItems(LevelCounts(scored'),
                                   DOMAIN LevelCounts(scored'))
    /\ sample_pc' = "done"
    /\ UNCHANGED <<sample_size, sample_problems, created, factory_calls,
                   fvars, dvars, svars, mvars, gvars>>

SampleNext == SampleAttempt \/ SampleScore

SampleSpec == SampleInit /\ [][SampleNext]_vars

----------------------------------------------------------------------------
(* C12: what difficulty adds up *)

\* what the k-th operator application contributes: the function of its
\* operator, applied to the running total before it and to its operand
StepDifficulty(problem, k) ==
    IF problem.operators[k] = "+"
    THEN difficulty_of_sum_of_two(RunningTotal(problem, k - 1),
                                  problem.numbers[k + 1])
    ELSE difficulty_of_difference(RunningTotal(problem, k - 1),
                                  problem.numbers[k + 1])

\* the sum of the contributions of the operator applications in steps
RECURSIVE SumOfSteps(_, _)
SumOfSteps(problem, steps) ==
    IF steps = {} THEN 0
    ELSE LET k == CHOOSE j \in steps : TRUE
         IN  StepDifficulty(problem, k) + SumOfSteps(problem, steps \ {k})

\* C12: the difficulty of every scored problem is the sum, over its operator
\* applications, of the sum function (for +) or the difference function
\* (for -) applied to the running total before the step and the step's
\* operand, and it is not negative.
C12_DifficultyIsSumOfSteps ==
    \A i \in 1..Len(scored) :
        /\ scored[i].level
             = SumOfSteps(scored[i].problem,
                          1..Len(scored[i].problem.operators))
        /\ scored[i].level >= 0

\* a scored three-term problem whose addition starts from a running total
\* that is not the operand before it: 2 - 2 + 1
C12_Witness ==
    /\ sample_pc = "done"
    /\ \E i \in 1..Len(scored) :
          /\ scored[i].problem = Problem(<<2, 2, 1>>, <<"-", "+">>)
          /\ scored[i].level = difficulty_of_difference(2, 2)
                                 + difficulty_of_sum_of_two(0, 1)

----------------------------------------------------------------------------
(* C13: create never fails, so the sampling loop ends exactly when the     *)
(* factory has two terms or more                                           *)

\* samples still to be made, plus one until the loop is left
SampleVariant ==
    (sample_size - Len(sample_problems))
        + (IF sample_pc = "loop" THEN 1 ELSE 0)

\* C13: with terms >= 2 (and limit >= 1) create never returns None and
\* returns terms operands and terms - 1 operators, every attempt of the
\* sampling loop is accepted and the loop is left after exactly sample_size
\* calls of create; with terms = 1 and sample_size >= 1 every attempt is
\* discarded and the loop is never left.
C13_SamplingEndsIffTwoTerms ==
    /\ [](factory.terms >= 2 =>
            /\ factory_calls > 0 =>
                  /\ created # NoProblem
                  /\ Len(created.numbers) = factory.terms
                  /\ Len(created.operators) = factory.terms - 1
            /\ Len(sample_problems) = factory_calls
            /\ sample_pc = "done" => factory_calls = sample_size)
    /\ []((factory.terms = 1 /\ sample_size >= 1) =>
            /\ sample_problems = <<>>
            /\ sample_pc = "loop"
            /\ ENABLED SampleAttempt)
    /\ [][factory.terms >= 2 =>
            /\ SampleVariant' < SampleVariant
            /\ SampleVariant' >= 0]_vars

\* two samples of three terms made in two calls, one of them through a
\* running total of 0, where only an addition can follow
C13_Witness ==
    /\ sample_pc = "done"
    /\ factory.terms = 3
    /\ sample_size = 2 /\ factory_calls = 2
    /\ Len(sample_problems) = 2
    /\ \E i \in 1..2 : RunningTotal(sample_problems[i], 1) = 0

====
